---- MODULE Spec2Model ----
(***************************************************************************)
(* Sale-transaction and inventory core of the Don Charo back office.       *)
(*                                                                         *)
(* The committed database is productos / ventas / items_venta / usuarios   *)
(* plus the id sequence of the ventas table.  Every HTTP request runs in   *)
(* its own SQLAlchemy session (get_db), bound to an engine created without *)
(* an isolation level, i.e. the store's default READ COMMITTED: a query    *)
(* sees the rows committed at the moment it runs, work flushed by another  *)
(* session is invisible until that session commits, and an UPDATE writes   *)
(* the absolute value the session computed.  The session is created with   *)
(* autoflush=False, so pending changes reach the store only at flush or    *)
(* commit, and an object already in the session's identity map is returned *)
(* as it is, not re-read.                                                  *)
(*                                                                         *)
(* Money is kept as integers: request prices in pesos, product prices in   *)
(* thousandths of a peso (the columns are floats, so a cost below one      *)
(* centavo can be stored; round(x, 2) is rounding to a multiple of 10).    *)
(* metodo_pago and observaciones are copied verbatim into the header and   *)
(* steer nothing, so they are left out of the rows.                        *)
(***************************************************************************)
EXTENDS Integers, Sequences, FiniteSets, TLC

\* ------------------------------------------------------------------ bounds
MaxItems == 2       \* longest list a request carries (venta.items, producto_ids)

\* ------------------------------------------------------------------ inputs
Requests == {"r1", "r2"}            \* concurrently served POST /ventas/ requests
Admins == {"a1"}                    \* concurrently served product-administration requests
Gestores == {"a1", "a2"}            \* workers that serve administration requests
ProductoIds == {1, 2}               \* ids a request may name
UsuarioIds == {1, 3}                \* authenticated callers of POST /ventas/
UsuarioRows == {1, 2, 3, 4}         \* ids a /users request may name
Cantidades == {-1, 3}               \* ItemVentaCreate.cantidad: any int
Precios == {10}                     \* ItemVentaCreate.precio_unitario
StockValues == {-1, 0, 5}           \* ProductoBase.stock / ProductoUpdate.stock: any int
Porcentajes == {10}                 \* porcentaje_aumento
PorcentajesLimite == {-60, -50, 10, 200, 201}   \* porcentaje_aumento, around the accepted range
CostoValues == {5}                  \* precio_costo sent by the caller: 0.005
PrecioVentaValues == {150000}       \* precio_venta sent by the caller: 150.00
MargenValues == {20}                \* margen_porcentaje sent by the caller

None == [existe |-> FALSE]

ItemVentaCreate == [producto_id : ProductoIds, cantidad : Cantidades, precio_unitario : Precios]

RECURSIVE SeqsUpTo(_, _)
SeqsUpTo(S, n) ==
    IF n = 0 THEN {<<>>}
    ELSE LET shorter == SeqsUpTo(S, n - 1)
         IN shorter \cup {Append(s, x) : s \in {t \in shorter : Len(t) = n - 1}, x \in S}

VentaCreate == SeqsUpTo(ItemVentaCreate, MaxItems)

\* ------------------------------------------------------------------ state
VARIABLES
    productos,      \* committed productos rows: id -> row or None
    ventas,         \* committed ventas rows (set of headers)
    items_venta,    \* committed items_venta rows, in insertion order
    venta_id_seq,   \* last value handed out by the ventas id sequence
    admin_done,     \* product-administration requests already served
    peticion,       \* per request: handler locals and its session
    gestion,        \* per worker serving another request: handler locals, session, response
    usuarios        \* committed usuarios rows: id -> row or None

vars == <<productos, ventas, items_venta, venta_id_seq, admin_done, peticion, gestion, usuarios>>

\* No response yet.
Pendiente == [status |-> 0, detail |-> 0]

\* A worker with no request in progress.
Idle == [pc |-> "idle", respuesta |-> Pendiente]

\* An administration worker with no request in progress.
GestionIdle == [pc |-> "idle", op |-> "", respuesta |-> Pendiente]

\* ------------------------------------------------------------------ pure helpers
RECURSIVE SumSeq(_)
SumSeq(s) == IF s = <<>> THEN 0 ELSE Head(s) + SumSeq(Tail(s))

\* item.cantidad * item.precio_unitario, as stored in ItemVenta.subtotal
Subtotal_precio_only(item) == item.precio_unitario
Subtotal(item) == item.cantidad * item.precio_unitario

\* total = sum(item.cantidad * item.precio_unitario for item in venta.items)
Total_desde_uno(items) == 1 + SumSeq([k \in 1..Len(items) |-> items[k].cantidad * items[k].precio_unitario])
Total(items) == SumSeq([k \in 1..Len(items) |-> items[k].cantidad * items[k].precio_unitario])

\* producto.stock < item.cantidad
StockInsuficiente_off_by_one(stock, cantidad) == stock + 1 < cantidad
StockInsuficiente(stock, cantidad) == stock < cantidad

\* db.query(models.Producto).filter(models.Producto.id == id).first(), run by
\* the session of request r: an object already in the identity map is returned
\* with the attributes the session holds; otherwise the committed row is loaded.
QueryProducto_relee(r, id) ==
    IF productos[id].existe
    THEN [existe |-> TRUE, stock |-> productos[id].stock,
          nuevo |-> id \notin DOMAIN peticion[r].sesion]
    ELSE None
QueryProducto(r, id) ==
    IF id \in DOMAIN peticion[r].sesion
    THEN [existe |-> TRUE, stock |-> peticion[r].sesion[id].stock, nuevo |-> FALSE]
    ELSE IF productos[id].existe
         THEN [existe |-> TRUE, stock |-> productos[id].stock, nuevo |-> TRUE]
         ELSE None

HTTP404_as_400(producto_id) == [status |-> 400, detail |-> producto_id]
HTTP404(producto_id) == [status |-> 404, detail |-> producto_id]
HTTP400(producto_id) == [status |-> 400, detail |-> producto_id]
HTTP200(venta_id) == [status |-> 200, detail |-> venta_id]

\* ------------------------------------------------------------------ crear_venta
\* Lines 17-27: compute the total, add the header and flush it.  The INSERT
\* draws the id from the sequence and stays private to the transaction.
\* Depends(get_current_user): the account whose token request r carries, the
\* superadmin for one request and the cajero for the other.
get_current_user(r) == IF r = "r1" THEN 1 ELSE 3

crear_venta_flush_autocommit(r) ==
    /\ peticion[r].pc = "idle"
    /\ \E venta \in VentaCreate, current_user \in UsuarioIds :
         /\ current_user = get_current_user(r)
         /\ venta_id_seq' = venta_id_seq + 1
         /\ ventas' = ventas \cup {[id |-> venta_id_seq + 1,
                                     usuario_id |-> current_user,
                                     total |-> Total(venta)]}
         /\ peticion' = [peticion EXCEPT ![r] =
                [pc |-> "loop",
                 venta |-> venta,
                 idx |-> 1,
                 db_venta |-> [id |-> venta_id_seq + 1,
                               usuario_id |-> current_user,
                               total |-> Total(venta)],
                 sesion |-> <<>>,
                 db_items |-> <<>>,
                 bloqueados |-> {},
                 respuesta |-> Pendiente]]
    /\ UNCHANGED <<productos, items_venta, admin_done, gestion, usuarios>>
crear_venta_flush(r) ==
    /\ peticion[r].pc = "idle"
    /\ \E venta \in VentaCreate, current_user \in UsuarioIds :
         /\ current_user = get_current_user(r)
         /\ venta_id_seq' = venta_id_seq + 1
         /\ peticion' = [peticion EXCEPT ![r] =
                [pc |-> "loop",
                 venta |-> venta,
                 idx |-> 1,
                 db_venta |-> [id |-> venta_id_seq + 1,
                               usuario_id |-> current_user,
                               total |-> Total(venta)],
                 sesion |-> <<>>,
                 db_items |-> <<>>,
                 bloqueados |-> {},
                 respuesta |-> Pendiente]]
    /\ UNCHANGED <<productos, ventas, items_venta, admin_done, gestion, usuarios>>

\* What db.rollback() leaves of the committed tables: the flushed header, the
\* added items and the changed stocks of request r are all discarded.
rollback_ventas_commits(r) == ventas \cup {peticion[r].db_venta}
rollback_ventas(r) == ventas
rollback_items_venta_commits(r) == items_venta \o peticion[r].db_items
rollback_items_venta(r) == items_venta
rollback_productos_flush(r) ==
    [id \in ProductoIds |->
        IF id \in DOMAIN peticion[r].sesion
        THEN [productos[id] EXCEPT !.stock = peticion[r].sesion[id].stock]
        ELSE productos[id]]
rollback_productos(r) == productos

\* db.rollback(); raise HTTPException(...): the session is emptied and the
\* handler ends at the line it was processing.
Abortar(r, respuesta) ==
    /\ peticion' = [peticion EXCEPT ![r] =
           [peticion[r] EXCEPT !.pc = "done", !.respuesta = respuesta,
                               !.sesion = <<>>, !.db_items = <<>>]]
    /\ ventas' = rollback_ventas(r)
    /\ items_venta' = rollback_items_venta(r)
    /\ productos' = rollback_productos(r)
    /\ UNCHANGED <<venta_id_seq, admin_done, gestion, usuarios>>

\* Lines 40-48: the ItemVenta added for the line and the stock decremented on
\* the session's Producto object.
AgregarItem_precio_lista(p, item, producto) ==
    [p EXCEPT
       !.idx = p.idx + 1,
       !.db_items = Append(p.db_items,
            [venta_id |-> p.db_venta.id,
             producto_id |-> item.producto_id,
             cantidad |-> item.cantidad,
             precio_unitario |-> productos[item.producto_id].precio_venta \div 1000,
             subtotal |-> item.cantidad * (productos[item.producto_id].precio_venta \div 1000)]),
       !.sesion = [id \in DOMAIN p.sesion \cup {item.producto_id} |->
            IF id = item.producto_id
            THEN [cargado |-> IF producto.nuevo THEN producto.stock ELSE p.sesion[id].cargado,
                  stock |-> producto.stock - item.cantidad]
            ELSE p.sesion[id]]]
AgregarItem_salta(p, item, producto) ==
    [p EXCEPT
       !.idx = p.idx + 2,
       !.db_items = Append(p.db_items,
            [venta_id |-> p.db_venta.id,
             producto_id |-> item.producto_id,
             cantidad |-> item.cantidad,
             precio_unitario |-> item.precio_unitario,
             subtotal |-> Subtotal(item)]),
       !.sesion = [id \in DOMAIN p.sesion \cup {item.producto_id} |->
            IF id = item.producto_id
            THEN [cargado |-> IF producto.nuevo THEN producto.stock ELSE p.sesion[id].cargado,
                  stock |-> producto.stock - item.cantidad]
            ELSE p.sesion[id]]]
AgregarItem(p, item, producto) ==
    [p EXCEPT
       !.idx = p.idx + 1,
       !.db_items = Append(p.db_items,
            [venta_id |-> p.db_venta.id,
             producto_id |-> item.producto_id,
             cantidad |-> item.cantidad,
             precio_unitario |-> item.precio_unitario,
             subtotal |-> Subtotal(item)]),
       !.sesion = [id \in DOMAIN p.sesion \cup {item.producto_id} |->
            IF id = item.producto_id
            THEN [cargado |-> IF producto.nuevo THEN producto.stock ELSE p.sesion[id].cargado,
                  stock |-> producto.stock - item.cantidad]
            ELSE p.sesion[id]]]

\* Lines 30-48: one iteration of the loop over venta.items.
crear_venta_item(r) ==
    /\ peticion[r].pc = "loop"
    /\ peticion[r].idx <= Len(peticion[r].venta)
    /\ LET p == peticion[r]
           item == p.venta[p.idx]
           producto == QueryProducto(r, item.producto_id)
       IN  IF ~producto.existe
           THEN Abortar(r, HTTP404(item.producto_id))
           ELSE IF StockInsuficiente(producto.stock, item.cantidad)
           THEN Abortar(r, HTTP400(item.producto_id))
           ELSE /\ peticion' = [peticion EXCEPT ![r] = AgregarItem(p, item, producto)]
                /\ UNCHANGED <<productos, ventas, items_venta, venta_id_seq, admin_done, gestion, usuarios>>

\* The UPDATE the unit of work emits at flush for a loaded product: the stock
\* column is written, as an absolute value, only when it differs from the
\* value that was loaded.
FlushStock(s, actual) == IF s.stock # s.cargado THEN s.stock ELSE actual

\* The INSERTs the commit emits for the ItemVenta objects added to the session.
InsertarItems_reemplaza(tabla, db_items) == db_items
InsertarItems(tabla, db_items) == tabla \o db_items

\* Lines 50-52: commit (flush of the items and of the changed stocks), refresh, return.
crear_venta_commit(r) ==
    /\ peticion[r].pc = "loop"
    /\ peticion[r].idx > Len(peticion[r].venta)
    /\ LET p == peticion[r]
       IN  /\ ventas' = ventas \cup {p.db_venta}
           /\ items_venta' = InsertarItems(items_venta, p.db_items)
           /\ productos' = [id \in ProductoIds |->
                  IF id \in DOMAIN p.sesion
                  THEN [productos[id] EXCEPT !.stock = FlushStock(p.sesion[id], productos[id].stock)]
                  ELSE productos[id]]
           /\ peticion' = [peticion EXCEPT ![r] =
                  [p EXCEPT !.pc = "done", !.respuesta = HTTP200(p.db_venta.id)]]
    /\ UNCHANGED <<venta_id_seq, admin_done, gestion, usuarios>>

\* The flush of db.commit() seen statement by statement.  The products whose
\* stock UPDATE request record p has still to send:
PendientesFlush(p) ==
    {id \in DOMAIN p.sesion : p.sesion[id].stock # p.sesion[id].cargado} \ p.bloqueados

\* The unit of work sends the UPDATEs of the changed rows of one table in
\* primary-key order.
OrdenFlush_por_linea(p, pendientes) ==
    p.venta[CHOOSE k \in 1..Len(p.venta) :
                /\ p.venta[k].producto_id \in pendientes
                /\ \A j \in 1..(k - 1) : p.venta[j].producto_id \notin pendientes].producto_id
OrdenFlush(p, pendientes) == CHOOSE id \in pendientes : \A o \in pendientes : id <= o

\* The row of product id is locked by the UPDATE of another transaction that
\* has not committed yet.
FilaBloqueada(r, id) ==
    \E o \in Requests \ {r} : peticion[o].pc = "loop" /\ id \in peticion[o].bloqueados

\* Line 50, one stock UPDATE of the flush: it waits while the row is locked
\* by another transaction, then holds the row lock until the COMMIT.
crear_venta_commit_update(r) ==
    /\ peticion[r].pc = "loop"
    /\ peticion[r].idx > Len(peticion[r].venta)
    /\ PendientesFlush(peticion[r]) # {}
    /\ LET id == OrdenFlush(peticion[r], PendientesFlush(peticion[r]))
       IN  /\ ~FilaBloqueada(r, id)
           /\ peticion' = [peticion EXCEPT ![r].bloqueados = @ \cup {id}]
    /\ UNCHANGED <<productos, ventas, items_venta, venta_id_seq, admin_done, gestion, usuarios>>

\* Line 50, the COMMIT once every UPDATE has been sent: the writes become
\* visible and the row locks are released.
crear_venta_commit_fin(r) ==
    /\ peticion[r].pc = "loop"
    /\ PendientesFlush(peticion[r]) = {}
    /\ crear_venta_commit(r)

\* ------------------------------------------------------------------ productos
\* round(x, 2) of the amount x = n / d thousandths of a peso: the multiple of
\* 10 (one centavo) nearest to x.  When x lies exactly halfway between two
\* centavos in decimal, the binary representation of the float decides which
\* neighbour round() returns, so both are possible results.
Round2_trunca(n, d) == {10 * (n \div (10 * d))}
Round2(n, d) ==
    LET q == n \div (10 * d)
        rem == n % (10 * d)
    IN  IF 2 * rem < 10 * d THEN {10 * q}
        ELSE IF 2 * rem > 10 * d THEN {10 * (q + 1)}
        ELSE {10 * q, 10 * (q + 1)}

\* The margin column the product routes read (producto.margen_porcentaje).
margen_porcentaje(producto) == producto.margen_porcentaje

\* precio_costo * (1 + margen_porcentaje / 100), not rounded by the code; the
\* costs and margins enumerated here give whole thousandths.
PrecioVentaCalculado(precio_costo, margen) == (precio_costo * (100 + margen)) \div 100

\* The id the productos sequence hands to the next inserted row.
NextProductoId == CHOOSE id \in ProductoIds :
    /\ ~productos[id].existe
    /\ \A otro \in ProductoIds : otro < id => productos[otro].existe

\* The response a product route returns after its commit.
Atendida(op, respuesta) == [pc |-> "done", op |-> op, respuesta |-> respuesta]

\* POST /productos/: the payload's fields are stored as sent, with the sale
\* price computed from cost and margin.
crear_producto(a) ==
    /\ a \notin admin_done
    /\ \E id \in ProductoIds : ~productos[id].existe
    /\ \E stock \in StockValues, precio_costo \in CostoValues, margen \in MargenValues :
         productos' = [productos EXCEPT ![NextProductoId] =
             [existe |-> TRUE, stock |-> stock, activo |-> TRUE,
              precio_costo |-> precio_costo, margen_porcentaje |-> margen,
              precio_venta |-> PrecioVentaCalculado(precio_costo, margen)]]
    /\ admin_done' = admin_done \cup {a}
    /\ gestion' = [gestion EXCEPT ![a] = Atendida("crear_producto", HTTP200(NextProductoId))]
    /\ UNCHANGED <<ventas, items_venta, venta_id_seq, peticion, usuarios>>

\* producto.dict(exclude_unset=True): the fields the caller sent.
ProductoUpdate ==
    {[stock |-> s] : s \in StockValues}
        \cup {[precio_costo |-> c] : c \in CostoValues}
        \cup {[precio_venta |-> v] : v \in PrecioVentaValues}

\* for key, value in update_data.items(): setattr(db_producto, key, value)
SetAttrs(db_producto, update_data) ==
    [campo \in DOMAIN db_producto |->
        IF campo \in DOMAIN update_data THEN update_data[campo] ELSE db_producto[campo]]

\* PUT /productos/{producto_id}
actualizar_producto(a, producto_id) ==
    /\ a \notin admin_done
    /\ productos[producto_id].existe
    /\ \E update_data \in ProductoUpdate :
         LET patched == SetAttrs(productos[producto_id], update_data)
         IN  productos' = [productos EXCEPT ![producto_id] =
                 IF "precio_costo" \in DOMAIN update_data
                 THEN [patched EXCEPT !.precio_venta =
                          PrecioVentaCalculado(patched.precio_costo, margen_porcentaje(patched))]
                 ELSE patched]
    /\ admin_done' = admin_done \cup {a}
    /\ gestion' = [gestion EXCEPT ![a] = Atendida("actualizar_producto", HTTP200(producto_id))]
    /\ UNCHANGED <<ventas, items_venta, venta_id_seq, peticion, usuarios>>

\* DELETE /productos/{producto_id}: soft delete.
eliminar_producto(a, producto_id) ==
    /\ a \notin admin_done
    /\ productos[producto_id].existe
    /\ productos' = [productos EXCEPT ![producto_id].activo = FALSE]
    /\ admin_done' = admin_done \cup {a}
    /\ gestion' = [gestion EXCEPT ![a] = Atendida("eliminar_producto", HTTP200(producto_id))]
    /\ UNCHANGED <<ventas, items_venta, venta_id_seq, peticion, usuarios>>

\* ------------------------------------------------------------------ actualizar_precios_masivo
ProductoIdsMasivo == SeqsUpTo(ProductoIds, MaxItems)

\* HTTPException(status_code=400, detail=...) of the three validations; the
\* detail is the limit the message names (0 for the empty selection).
HTTP400Validacion(limite) == [status |-> 400, detail |-> limite]
HTTP500 == [status |-> 500, detail |-> 0]

\* Lines 278-295: the validations, in the order the code makes them.
ValidarMasivo_estricto(producto_ids, porcentaje_aumento) ==
    IF porcentaje_aumento <= -50 THEN HTTP400Validacion(-50)
    ELSE IF porcentaje_aumento >= 200 THEN HTTP400Validacion(200)
    ELSE IF Len(producto_ids) = 0 THEN HTTP400Validacion(0)
    ELSE Pendiente
ValidarMasivo(producto_ids, porcentaje_aumento) ==
    IF porcentaje_aumento < -50 THEN HTTP400Validacion(-50)
    ELSE IF porcentaje_aumento > 200 THEN HTTP400Validacion(200)
    ELSE IF Len(producto_ids) = 0 THEN HTTP400Validacion(0)
    ELSE Pendiente

\* Lines 277-297: PATCH /productos/actualizar-precios-masivo up to the loop.
actualizar_precios_masivo_validar(a, producto_ids, porcentaje_aumento) ==
    /\ a \notin admin_done
    /\ admin_done' = admin_done \cup {a}
    /\ gestion' = [gestion EXCEPT ![a] =
           IF ValidarMasivo(producto_ids, porcentaje_aumento) # Pendiente
           THEN [pc |-> "done", op |-> "actualizar_precios_masivo",
                 producto_ids |-> producto_ids, porcentaje_aumento |-> porcentaje_aumento,
                 respuesta |-> ValidarMasivo(producto_ids, porcentaje_aumento)]
           ELSE [pc |-> "masivo", op |-> "actualizar_precios_masivo",
                 producto_ids |-> producto_ids, porcentaje_aumento |-> porcentaje_aumento,
                 idx |-> 1, sesion |-> <<>>, productos_actualizados |-> 0,
                 respuesta |-> Pendiente]]
    /\ UNCHANGED <<productos, ventas, items_venta, venta_id_seq, peticion, usuarios>>

\* Lines 301-304: the query filtered by id and activo == True, run by the
\* session of worker a.  The store evaluates the filter on the committed row;
\* for a row whose object is already in the identity map the session returns
\* that object with the attributes it holds.
QueryProductoActivo_sin_filtro(a, id) ==
    IF productos[id].existe
    THEN IF id \in DOMAIN gestion[a].sesion
         THEN gestion[a].sesion[id]
         ELSE [existe |-> TRUE,
               stock |-> productos[id].stock,
               precio_costo |-> productos[id].precio_costo,
               precio_venta |-> productos[id].precio_venta,
               margen_porcentaje |-> productos[id].margen_porcentaje,
               cargado |-> [precio_costo |-> productos[id].precio_costo,
                            precio_venta |-> productos[id].precio_venta]]
    ELSE None
QueryProductoActivo(a, id) ==
    IF productos[id].existe /\ productos[id].activo
    THEN IF id \in DOMAIN gestion[a].sesion
         THEN gestion[a].sesion[id]
         ELSE [existe |-> TRUE,
               stock |-> productos[id].stock,
               precio_costo |-> productos[id].precio_costo,
               precio_venta |-> productos[id].precio_venta,
               margen_porcentaje |-> productos[id].margen_porcentaje,
               cargado |-> [precio_costo |-> productos[id].precio_costo,
                            precio_venta |-> productos[id].precio_venta]]
    ELSE None

\* Lines 308-312: nuevo_precio_costo <= 0, tested on the unrounded product.
NuevoCostoNoPositivo(precio_costo, porcentaje_aumento) ==
    precio_costo * (100 + porcentaje_aumento) <= 0

\* Lines 300-323: one iteration of the loop over request.producto_ids.
actualizar_precios_masivo_item(a) ==
    /\ gestion[a].pc = "masivo"
    /\ gestion[a].idx <= Len(gestion[a].producto_ids)
    /\ LET g == gestion[a]
           producto_id == g.producto_ids[g.idx]
           producto == QueryProductoActivo(a, producto_id)
           cargados == [id \in DOMAIN g.sesion \cup {producto_id} |->
                           IF id = producto_id THEN producto ELSE g.sesion[id]]
       IN  IF ~producto.existe
           THEN gestion' = [gestion EXCEPT ![a].idx = g.idx + 1]
           ELSE IF NuevoCostoNoPositivo(producto.precio_costo, g.porcentaje_aumento)
           THEN gestion' = [gestion EXCEPT ![a].idx = g.idx + 1, ![a].sesion = cargados]
           ELSE \E costo \in Round2(producto.precio_costo * (100 + g.porcentaje_aumento), 100) :
                \E venta \in Round2(costo * (100 + margen_porcentaje(producto)), 100) :
                    gestion' = [gestion EXCEPT
                        ![a].idx = g.idx + 1,
                        ![a].sesion = [cargados EXCEPT ![producto_id].precio_costo = costo,
                                                       ![producto_id].precio_venta = venta],
                        ![a].productos_actualizados = g.productos_actualizados + 1]
    /\ UNCHANGED <<productos, ventas, items_venta, venta_id_seq, admin_done, peticion, usuarios>>

\* The UPDATE the unit of work emits at commit for a loaded product: each
\* price column is written only when it differs from the value that was loaded;
\* no other column is written.
FlushPrecios_fila_completa(s, actual) ==
    [actual EXCEPT !.precio_costo = s.precio_costo, !.precio_venta = s.precio_venta,
                   !.stock = s.stock]
FlushPrecios_solo_costo(s, actual) ==
    [actual EXCEPT
        !.precio_costo = IF s.precio_costo # s.cargado.precio_costo THEN s.precio_costo ELSE @]
FlushPrecios(s, actual) ==
    [actual EXCEPT
        !.precio_costo = IF s.precio_costo # s.cargado.precio_costo THEN s.precio_costo ELSE @,
        !.precio_venta = IF s.precio_venta # s.cargado.precio_venta THEN s.precio_venta ELSE @]

\* Lines 325-331: commit and the response carrying productos_actualizados.
actualizar_precios_masivo_commit(a) ==
    /\ gestion[a].pc = "masivo"
    /\ gestion[a].idx > Len(gestion[a].producto_ids)
    /\ LET g == gestion[a]
       IN  /\ productos' = [id \in ProductoIds |->
                  IF id \in DOMAIN g.sesion
                  THEN FlushPrecios(g.sesion[id], productos[id])
                  ELSE productos[id]]
           /\ gestion' = [gestion EXCEPT ![a] =
                  [g EXCEPT !.pc = "done", !.respuesta = HTTP200(g.productos_actualizados)]]
    /\ UNCHANGED <<ventas, items_venta, venta_id_seq, admin_done, peticion, usuarios>>

\* What db.rollback() at line 334 leaves of the committed productos table
\* given the rows the session of worker a holds.
rollback_masivo_parcial(a) ==
    [id \in ProductoIds |->
        IF id \in DOMAIN gestion[a].sesion
        THEN [productos[id] EXCEPT !.precio_costo = gestion[a].sesion[id].precio_costo,
                                   !.precio_venta = gestion[a].sesion[id].precio_venta]
        ELSE productos[id]]
rollback_masivo(a) == productos

\* Lines 333-338: a query of the loop, or the commit, raises (the store fails):
\* rollback and HTTP 500.
actualizar_precios_masivo_error(a) ==
    /\ gestion[a].pc = "masivo"
    /\ productos' = rollback_masivo(a)
    /\ gestion' = [gestion EXCEPT ![a] =
           [gestion[a] EXCEPT !.pc = "done", !.respuesta = HTTP500, !.sesion = <<>>]]
    /\ UNCHANGED <<ventas, items_venta, venta_id_seq, admin_done, peticion, usuarios>>

\* ------------------------------------------------------------------ get_db
\* Lines 12-17 of database.py: the handler of a sale creation leaves through
\* an exception other than its own HTTPException (a query, the flush or the
\* commit fails, the request is cancelled, the worker dies) after the header
\* flush; finally: db.close() ends the transaction without commit, so the store
\* rolls it back, and the caller gets a 500 at most.
crear_venta_abortada(r) ==
    /\ peticion[r].pc = "loop"
    /\ Abortar(r, HTTP500)

\* ------------------------------------------------------------------ usuarios
\* Usuario.rol as verify_superadmin and the routes compare it (upper case).
ValidRoles == {"SUPERADMIN", "ADMIN", "CAJERO"}

\* user_data.dict of a PUT /users/{user_id}: the fields that steer the stored
\* rol and activo (username, email, password and nombre_completo touch neither).
UserUpdate ==
    {[activo |-> b] : b \in BOOLEAN}
        \cup {[rol |-> rol] : rol \in ValidRoles \cup {"GERENTE"}}

\* verify_superadmin: the caller of a /users route is a logged-in account
\* (login refuses an inactive one) whose rol is SUPERADMIN.
verify_superadmin(current_user) ==
    /\ usuarios[current_user].existe
    /\ usuarios[current_user].activo
    /\ usuarios[current_user].rol = "SUPERADMIN"

\* A served /users request: what was asked and what was answered.
AtendidaUsuario(op, current_user, user_id, user_data, respuesta) ==
    [pc |-> "done", op |-> op, current_user |-> current_user, user_id |-> user_id,
     user_data |-> user_data, respuesta |-> respuesta]

\* DELETE /users/{user_id}: deactivation, refused on the caller's own id.
delete_user(a, current_user, user_id) ==
    /\ gestion[a].pc = "idle"
    /\ verify_superadmin(current_user)
    /\ IF ~usuarios[user_id].existe
       THEN /\ usuarios' = usuarios
            /\ gestion' = [gestion EXCEPT ![a] =
                   AtendidaUsuario("delete_user", current_user, user_id, <<>>, HTTP404(user_id))]
       ELSE IF user_id = current_user
       THEN /\ usuarios' = usuarios
            /\ gestion' = [gestion EXCEPT ![a] =
                   AtendidaUsuario("delete_user", current_user, user_id, <<>>, HTTP400(user_id))]
       ELSE /\ usuarios' = [usuarios EXCEPT ![user_id].activo = FALSE]
            /\ gestion' = [gestion EXCEPT ![a] =
                   AtendidaUsuario("delete_user", current_user, user_id, <<>>,
                                   [status |-> 204, detail |-> user_id])]
    /\ UNCHANGED <<productos, ventas, items_venta, venta_id_seq, admin_done, peticion>>

\* PUT /users/{user_id}: an invalid rol is refused before the commit;
\* otherwise the fields sent are stored.
update_user(a, current_user, user_id, user_data) ==
    /\ gestion[a].pc = "idle"
    /\ verify_superadmin(current_user)
    /\ IF ~usuarios[user_id].existe
       THEN /\ usuarios' = usuarios
            /\ gestion' = [gestion EXCEPT ![a] =
                   AtendidaUsuario("update_user", current_user, user_id, user_data, HTTP404(user_id))]
       ELSE IF "rol" \in DOMAIN user_data /\ user_data.rol \notin ValidRoles
       THEN /\ usuarios' = usuarios
            /\ gestion' = [gestion EXCEPT ![a] =
                   AtendidaUsuario("update_user", current_user, user_id, user_data, HTTP400(user_id))]
       ELSE /\ usuarios' = [usuarios EXCEPT ![user_id] = SetAttrs(@, user_data)]
            /\ gestion' = [gestion EXCEPT ![a] =
                   AtendidaUsuario("update_user", current_user, user_id, user_data, HTTP200(user_id))]
    /\ UNCHANGED <<productos, ventas, items_venta, venta_id_seq, admin_done, peticion>>

\* ------------------------------------------------------------------ listar_ventas
\* The rol column is an Enum(RolEnum) whose members are strings: the loaded
\* attribute equals "admin" for the member ADMIN only.
EsAdmin(rol) == rol = "ADMIN"

\* Lines 62-67 of ventas.py: the SELECT over ventas, unfiltered for an admin,
\* filtered by usuario_id for anyone else (skip 0, and a limit no smaller than
\* the number of rows).
QueryVentas(current_user) ==
    IF EsAdmin(usuarios[current_user].rol)
    THEN ventas
    ELSE {v \in ventas : v.usuario_id = current_user}

\* The SELECT a lazy load of Venta.items emits: the committed items of the sale.
CargarItems_sin_filtro(venta_id) == items_venta
CargarItems(venta_id) == SelectSeq(items_venta, LAMBDA it : it.venta_id = venta_id)

\* GET /ventas/, lines 54-68: the headers are read by one SELECT.  The caller
\* is a logged-in account (login refuses an inactive one).
listar_ventas_query(a, current_user) ==
    /\ gestion[a].pc = "idle"
    /\ usuarios[current_user].existe
    /\ usuarios[current_user].activo
    /\ gestion' = [gestion EXCEPT ![a] =
           [pc |-> "serializando",
            op |-> "listar_ventas",
            current_user |-> current_user,
            ventas |-> QueryVentas(current_user),
            items |-> <<>>,
            respuesta |-> Pendiente]]
    /\ UNCHANGED <<productos, ventas, items_venta, venta_id_seq, admin_done, peticion, usuarios>>

\* The response model (List[schemas.Venta]) reads Venta.items of each header
\* returned, each by a SELECT of its own in the same session; after the last
\* one the response is sent and get_db closes the session.
listar_ventas_items(a) ==
    /\ gestion[a].pc = "serializando"
    /\ LET g == gestion[a]
           pendientes == {v.id : v \in g.ventas} \ DOMAIN g.items
       IN  IF pendientes = {}
           THEN gestion' = [gestion EXCEPT ![a] =
                    [g EXCEPT !.pc = "done", !.respuesta = HTTP200(Cardinality(g.ventas))]]
           ELSE LET venta_id == CHOOSE id \in pendientes : \A o \in pendientes : id <= o
                IN  gestion' = [gestion EXCEPT ![a] =
                        [g EXCEPT !.items = [id \in DOMAIN g.items \cup {venta_id} |->
                            IF id = venta_id THEN CargarItems(venta_id) ELSE g.items[id]]]]
    /\ UNCHANGED <<productos, ventas, items_venta, venta_id_seq, admin_done, peticion, usuarios>>

\* ------------------------------------------------------------------ specification
\* Accounts created at startup: the superadmin, the admin and the cajero, all
\* active; a fourth id has no row.
Usuarios0 == [id \in UsuarioRows |->
    IF id = 1 THEN [existe |-> TRUE, activo |-> TRUE, rol |-> "SUPERADMIN"]
    ELSE IF id = 2 THEN [existe |-> TRUE, activo |-> TRUE, rol |-> "ADMIN"]
    ELSE IF id = 3 THEN [existe |-> TRUE, activo |-> TRUE, rol |-> "CAJERO"]
    ELSE None]

Producto0 == [existe |-> TRUE, stock |-> 5, activo |-> TRUE,
              precio_costo |-> 100000, margen_porcentaje |-> 20, precio_venta |-> 120000]

Init ==
    /\ productos = [id \in ProductoIds |-> IF id = 1 THEN Producto0 ELSE None]
    /\ ventas = {}
    /\ items_venta = <<>>
    /\ venta_id_seq = 0
    /\ admin_done = {}
    /\ peticion = [r \in Requests |-> Idle]
    /\ gestion = [a \in Gestores |-> GestionIdle]
    /\ usuarios = Usuarios0

\* Sale creations only, each worker serving one request.
NextVentas ==
    \E r \in Requests :
        \/ crear_venta_flush(r)
        \/ crear_venta_item(r)
        \/ crear_venta_commit(r)

SpecVentas == Init /\ [][NextVentas]_vars

\* Sale creations and every operation that writes what a sale reads (the
\* existence, the stock and the activo flag of a product), in any interleaving.
Next ==
    \/ \E r \in Requests :
        \/ crear_venta_flush(r)
        \/ crear_venta_item(r)
        \/ crear_venta_commit(r)
    \/ \E a \in Admins :
        \/ \E producto_id \in ProductoIds :
            \/ actualizar_producto(a, producto_id)
            \/ eliminar_producto(a, producto_id)
        \/ crear_producto(a)

Spec == Init /\ [][Next]_vars

\* Sale creations that may be aborted at any step after the header flush.
NextAbort ==
    \E r \in Requests :
        \/ crear_venta_flush(r)
        \/ crear_venta_item(r)
        \/ crear_venta_commit(r)
        \/ crear_venta_abortada(r)

SpecAbort == Init /\ [][NextAbort]_vars

\* Sale creations and one listing of the sales by any account, interleaved.
NextLectura ==
    \/ \E r \in Requests :
          \/ crear_venta_flush(r)
          \/ crear_venta_item(r)
          \/ crear_venta_commit(r)
    \/ \E current_user \in UsuarioRows : listar_ventas_query("a1", current_user)
    \/ listar_ventas_items("a1")

SpecLectura == Init /\ [][NextLectura]_vars

\* Sale creations of at most one line and two listings of the sales,
\* interleaved.
NextRelectura ==
    \/ \E r \in Requests :
          \/ crear_venta_flush(r) /\ Len(peticion'[r].venta) <= 1
          \/ crear_venta_item(r)
          \/ crear_venta_commit(r)
    \/ \E a \in Gestores :
          \/ \E current_user \in UsuarioRows : listar_ventas_query(a, current_user)
          \/ listar_ventas_items(a)

SpecRelectura == Init /\ [][NextRelectura]_vars

\* Sale creations, of lines with positive quantities, whose commit takes the
\* row locks of its stock UPDATEs one by one, and the creation of a second
\* product.  A handler that can take a step is run by the server, and the
\* store grants a row lock that is free.
NextBloqueo ==
    \/ \E r \in Requests :
          \/ /\ crear_venta_flush(r)
             /\ \A k \in 1..Len(peticion'[r].venta) : peticion'[r].venta[k].cantidad > 0
          \/ crear_venta_item(r)
          \/ crear_venta_commit_update(r)
          \/ crear_venta_commit_fin(r)
    \/ crear_producto("a1")

SpecBloqueo ==
    /\ Init
    /\ [][NextBloqueo]_vars
    /\ \A r \in Requests :
          /\ WF_vars(crear_venta_item(r))
          /\ WF_vars(crear_venta_commit_update(r))
          /\ WF_vars(crear_venta_commit_fin(r))

\* Product administration by two workers, one serving the single-product
\* routes and one serving bulk price updates, with percentages around the
\* accepted range, in any interleaving.
NextPrecios ==
    \/ \E producto_id \in ProductoIds :
        \/ actualizar_producto("a1", producto_id)
        \/ eliminar_producto("a1", producto_id)
    \/ crear_producto("a1")
    \/ \E producto_ids \in ProductoIdsMasivo, porcentaje_aumento \in PorcentajesLimite :
          actualizar_precios_masivo_validar("a2", producto_ids, porcentaje_aumento)
    \/ actualizar_precios_masivo_item("a2")
    \/ actualizar_precios_masivo_commit("a2")
    \/ actualizar_precios_masivo_error("a2")

SpecPrecios == Init /\ [][NextPrecios]_vars

\* Sale creations of at most one line next to the product administration of
\* NextPrecios with one percentage, in any interleaving.
NextGestion ==
    \/ \E r \in Requests :
        \/ crear_venta_flush(r) /\ Len(peticion'[r].venta) <= 1
        \/ crear_venta_item(r)
        \/ crear_venta_commit(r)
    \/ \E producto_id \in ProductoIds :
        \/ actualizar_producto("a1", producto_id)
        \/ eliminar_producto("a1", producto_id)
    \/ crear_producto("a1")
    \/ \E producto_ids \in ProductoIdsMasivo, porcentaje_aumento \in Porcentajes :
          actualizar_precios_masivo_validar("a2", producto_ids, porcentaje_aumento)
    \/ actualizar_precios_masivo_item("a2")
    \/ actualizar_precios_masivo_commit("a2")
    \/ actualizar_precios_masivo_error("a2")

SpecGestion == Init /\ [][NextGestion]_vars

\* User administration by two workers, in any interleaving.
NextUsuarios ==
    \E a \in Gestores, current_user \in UsuarioRows, user_id \in UsuarioRows :
        \/ delete_user(a, current_user, user_id)
        \/ \E user_data \in UserUpdate : update_user(a, current_user, user_id, user_data)

SpecUsuarios == Init /\ [][NextUsuarios]_vars

\* ------------------------------------------------------------------ properties
Done(r) == peticion[r].pc = "done"
Fallo(r) == Done(r) /\ peticion[r].respuesta.status \in {400, 404}
Exito(r) == Done(r) /\ peticion[r].respuesta.status = 200

\* The committed rows of sale id.
VentaPersistida(id) == \E v \in ventas : v.id = id
ItemsDe(id) == SelectSeq(items_venta, LAMBDA it : it.venta_id = id)

\* Units of product id a request asks for, over all its lines.
Unidades(venta, id) ==
    SumSeq([k \in 1..Len(venta) |-> IF venta[k].producto_id = id THEN venta[k].cantidad ELSE 0])

\* Units of product id in committed line items.
UnidadesVendidas(id) ==
    SumSeq([k \in 1..Len(items_venta) |->
        IF items_venta[k].producto_id = id THEN items_venta[k].cantidad ELSE 0])

\* C1: whenever crear_venta ends in an error (404 or 400, at any line), the
\* step that raises it leaves every committed stock, sale and line item as it
\* was, no earlier step of that call wrote anything to the committed tables,
\* and no header or line item carrying the id of the failed sale is committed.
C1_ErrorSinEfectos ==
    /\ [](\A r \in Requests : Fallo(r) =>
            /\ ~VentaPersistida(peticion[r].db_venta.id)
            /\ ItemsDe(peticion[r].db_venta.id) = <<>>)
    /\ [][\A r \in Requests :
            (peticion'[r] # peticion[r] /\ peticion'[r].respuesta.status # 200)
                => /\ productos' = productos
                   /\ ventas' = ventas
                   /\ items_venta' = items_venta]_vars

\* A request failed on its second line, after its first line was added and
\* its stock decremented in the session.
C1_Witness ==
    \E r \in Requests :
        /\ Fallo(r)
        /\ peticion[r].idx = 2
        /\ peticion[r].venta[1].cantidad > 0

\* C2: every product has stock >= 0 in every committed state.
C2_StockNoNegativo ==
    \A id \in ProductoIds : productos[id].existe => productos[id].stock >= 0

\* A request that asks for exactly 3 units of product 1 and nothing else.
PideTres(r) ==
    /\ peticion[r].pc # "idle"
    /\ \A k \in 1..Len(peticion[r].venta) :
          peticion[r].venta[k].producto_id = 1 /\ peticion[r].venta[k].cantidad > 0
    /\ Unidades(peticion[r].venta, 1) = 3

\* C3: product 1 starts with stock 5; when both requests ask for 3 units of it
\* and both have ended, exactly one succeeded, the other got the 400 for
\* product 1, and the committed stock is 2.
C3_UnaSolaVenta ==
    (\A r \in Requests : Done(r) /\ PideTres(r)) =>
        /\ Cardinality({r \in Requests : Exito(r)}) = 1
        /\ \A r \in Requests : ~Exito(r) => peticion[r].respuesta = HTTP400(1)
        /\ productos[1].stock = 2

\* C4: with sale creations only (and quantities > 0), the committed stock of
\* every product is its initial stock minus the units of its committed line
\* items: no two sales consume the same units.
C4_StockConservado ==
    (\A k \in 1..Len(items_venta) : items_venta[k].cantidad > 0) =>
        \A id \in ProductoIds : productos[id].existe =>
            productos[id].stock = Producto0.stock - UnidadesVendidas(id)

\* C5: for every committed sale, total is the sum of the subtotals of its
\* committed line items, and every committed line item's subtotal is its
\* quantity times its unit price.
C5_TotalCorrecto ==
    /\ \A v \in ventas :
          v.total = SumSeq([k \in 1..Len(ItemsDe(v.id)) |-> ItemsDe(v.id)[k].subtotal])
    /\ \A k \in 1..Len(items_venta) :
          items_venta[k].subtotal = items_venta[k].cantidad * items_venta[k].precio_unitario

\* A committed sale with two line items, for two different products.
C5_Witness ==
    \E v \in ventas :
        /\ Len(ItemsDe(v.id)) = 2
        /\ ItemsDe(v.id)[1].producto_id # ItemsDe(v.id)[2].producto_id
        /\ v.total = 60

\* C6: the commit of a successful crear_venta (all sold quantities > 0) persists
\* one line item per requested line and takes from the committed stock of every
\* product exactly the units the request asks for (nothing from a product it
\* does not name).
C6_DescuentoExacto ==
    [][\A r \in Requests :
          (/\ peticion[r].pc = "loop"
           /\ peticion'[r].pc = "done"
           /\ peticion'[r].respuesta.status = 200
           /\ \A k \in 1..Len(items_venta') : items_venta'[k].cantidad > 0)
          => /\ Len(ItemsDe(peticion[r].db_venta.id))' = Len(peticion[r].venta)
             /\ \A id \in ProductoIds : productos[id].existe =>
                   productos'[id].stock = productos[id].stock - Unidades(peticion[r].venta, id)
      ]_vars

\* C7: when the loop reaches a line whose product exists and whose quantity
\* exceeds the stock read inside the transaction, the call ends with the 400
\* naming that product, the committed tables are unchanged and the sale has
\* no committed row.
C7_StockInsuficiente ==
    [][\A r \in Requests :
          (/\ peticion[r].pc = "loop"
           /\ peticion[r].idx <= Len(peticion[r].venta)
           /\ peticion'[r] # peticion[r]
           /\ QueryProducto(r, peticion[r].venta[peticion[r].idx].producto_id).existe
           /\ QueryProducto(r, peticion[r].venta[peticion[r].idx].producto_id).stock
                 < peticion[r].venta[peticion[r].idx].cantidad)
          => /\ peticion'[r].pc = "done"
             /\ peticion'[r].respuesta =
                    [status |-> 400, detail |-> peticion[r].venta[peticion[r].idx].producto_id]
             /\ productos' = productos
             /\ ventas' = ventas
             /\ items_venta' = items_venta
             /\ ~(VentaPersistida(peticion[r].db_venta.id))'
      ]_vars

\* A sale against a committed stock of 0 was refused on its first line.
C7_Witness ==
    \E r \in Requests :
        /\ Done(r)
        /\ peticion[r].respuesta.status = 400
        /\ peticion[r].venta[peticion[r].idx].cantidad > 0
        /\ peticion[r].idx = 1
        /\ productos[peticion[r].venta[1].producto_id].stock = 0

\* C8: when the loop reaches a line whose producto_id has no row, the call
\* ends with the 404 naming that id, the transaction is rolled back and no
\* sale is returned or committed.
C8_ProductoNoEncontrado ==
    [][\A r \in Requests :
          (/\ peticion[r].pc = "loop"
           /\ peticion[r].idx <= Len(peticion[r].venta)
           /\ peticion'[r] # peticion[r]
           /\ ~productos[peticion[r].venta[peticion[r].idx].producto_id].existe)
          => /\ peticion'[r].pc = "done"
             /\ peticion'[r].respuesta =
                    [status |-> 404, detail |-> peticion[r].venta[peticion[r].idx].producto_id]
             /\ productos' = productos
             /\ ventas' = ventas
             /\ items_venta' = items_venta
             /\ ~(VentaPersistida(peticion[r].db_venta.id))'
      ]_vars

\* A request was refused with 404 on its second line.
C8_Witness ==
    \E r \in Requests :
        /\ Done(r)
        /\ peticion[r].respuesta.status = 404
        /\ peticion[r].idx = 2
        /\ ~productos[peticion[r].venta[2].producto_id].existe

\* C9: crear_venta adds a line item, and decrements the stock, only for a
\* product whose activo flag is true when the line is processed.
C9_SoloProductosActivos ==
    [][\A r \in Requests :
          (/\ peticion[r].pc = "loop"
           /\ peticion'[r].pc = "loop"
           /\ peticion'[r].idx = peticion[r].idx + 1)
          => productos[peticion[r].venta[peticion[r].idx].producto_id].activo
      ]_vars

\* C10: every committed line item has a quantity > 0.
C10_CantidadPositiva ==
    \A k \in 1..Len(items_venta) : items_venta[k].cantidad > 0
\* C11: no step removes or changes a committed sale header (its total
\* included) or a committed line item (quantity, unit price, subtotal), and no
\* step adds a line item to a sale that was already committed; the steps are
\* sale creations, product updates, soft deletes and bulk price updates.
C11_VentaInmutable ==
    [][/\ \A v \in ventas : v \in ventas'
       /\ Len(items_venta') >= Len(items_venta)
       /\ \A k \in 1..Len(items_venta) : items_venta'[k] = items_venta[k]
       /\ \A k \in (Len(items_venta) + 1)..Len(items_venta') :
             ~VentaPersistida(items_venta'[k].venta_id)
      ]_vars

\* Two sales are committed, a bulk update has raised the prices of product 1
\* and the single-product worker has served a request.
C11_Witness ==
    /\ Cardinality(ventas) = 2
    /\ Len(items_venta) = 2
    /\ items_venta[1].producto_id = 1
    /\ items_venta[1].precio_unitario = 10
    /\ productos[1].precio_costo = 110000
    /\ productos[1].precio_venta = 132000
    /\ gestion["a1"].pc = "done"

\* C12: a step that changes the committed stock of an existing product is the
\* commit of a sale creation or a direct product update; every step of a bulk
\* price update (validation, iteration, commit, failure) and the soft delete
\* leave the stock of every product as it was.
C12_StockSoloVentaOAjuste ==
    [][/\ \A id \in ProductoIds :
             (productos[id].existe /\ productos'[id].stock # productos[id].stock)
                => \/ \E r \in Requests :
                        /\ peticion[r].pc = "loop"
                        /\ peticion'[r].pc = "done"
                        /\ peticion'[r].respuesta.status = 200
                   \/ \E a \in Gestores :
                        /\ gestion[a].pc = "idle"
                        /\ gestion'[a].op = "actualizar_producto"
       /\ \A a \in Gestores :
             (/\ gestion'[a] # gestion[a]
              /\ gestion'[a].op \in {"actualizar_precios_masivo", "eliminar_producto"})
                => \A id \in ProductoIds :
                      productos[id].existe => productos'[id].stock = productos[id].stock
      ]_vars

\* A bulk update that changed the prices of product 1 was committed after a
\* sale had taken 3 units of it, and a soft delete was served.
C12_Witness ==
    /\ gestion["a2"].pc = "done"
    /\ gestion["a2"].respuesta.status = 200
    /\ gestion["a2"].respuesta.detail >= 1
    /\ gestion["a1"].op = "eliminar_producto"
    /\ productos[1].precio_costo = 110000
    /\ productos[1].stock = 2
\* An iteration of the bulk loop by worker a, and the id it processes.
PasoItem(a) ==
    /\ gestion[a].pc = "masivo"
    /\ gestion'[a].pc = "masivo"
    /\ gestion'[a].idx = gestion[a].idx + 1
IdActual(a) == gestion[a].producto_ids[gestion[a].idx]

\* The commit of a bulk update by worker a.
PasoCommitMasivo(a) ==
    /\ gestion[a].pc = "masivo"
    /\ gestion'[a].pc = "done"
    /\ gestion'[a].respuesta.status = 200

\* C13: a bulk update whose percentage is below -50 or above 200, or whose id
\* list is empty, ends at once with a 400 and changes no product; with -50 or
\* 200 (and every percentage between) and a non-empty list it is accepted and
\* enters its loop.
C13_ValidacionMasivo ==
    [][\A a \in Gestores :
          (gestion[a].pc = "idle" /\ gestion'[a].op = "actualizar_precios_masivo")
            => IF \/ gestion'[a].porcentaje_aumento < -50
                  \/ gestion'[a].porcentaje_aumento > 200
                  \/ gestion'[a].producto_ids = <<>>
               THEN /\ gestion'[a].pc = "done"
                    /\ gestion'[a].respuesta.status = 400
                    /\ productos' = productos
               ELSE /\ gestion'[a].pc = "masivo"
                    /\ gestion'[a].respuesta = Pendiente
      ]_vars

\* A bulk update of product 1 by -60 % was refused.
C13_Witness ==
    /\ gestion["a2"].pc = "done"
    /\ gestion["a2"].op = "actualizar_precios_masivo"
    /\ gestion["a2"].porcentaje_aumento = -60
    /\ gestion["a2"].producto_ids = <<1>>
    /\ gestion["a2"].respuesta.status = 400
    /\ productos[1].precio_costo = Producto0.precio_costo

\* C14: an iteration whose id has no row, or an inactive row, changes neither
\* what the session holds nor the counter and goes on to the next id; the commit
\* answers 200 with the counter, which counts the iterations that applied new
\* prices, and writes no product whose prices the call did not set.
C14_OmiteInexistentesEInactivos ==
    [][\A a \in Gestores :
          /\ (PasoItem(a) /\ ~(productos[IdActual(a)].existe /\ productos[IdActual(a)].activo))
                => /\ gestion'[a].sesion = gestion[a].sesion
                   /\ gestion'[a].productos_actualizados = gestion[a].productos_actualizados
                   /\ productos' = productos
          /\ (PasoItem(a) /\ gestion'[a].productos_actualizados # gestion[a].productos_actualizados)
                => /\ gestion'[a].productos_actualizados = gestion[a].productos_actualizados + 1
                   /\ productos[IdActual(a)].existe /\ productos[IdActual(a)].activo
                   /\ IdActual(a) \in DOMAIN gestion'[a].sesion
          /\ PasoCommitMasivo(a)
                => /\ gestion'[a].respuesta.detail = gestion[a].productos_actualizados
                   /\ \A id \in ProductoIds :
                         (id \notin DOMAIN gestion[a].sesion) => productos'[id] = productos[id]
      ]_vars

\* A bulk update of <<2, 1>> by 10 %, product 2 having no row, succeeded and
\* counted one product, product 1.
C14_Witness ==
    /\ gestion["a2"].pc = "done"
    /\ gestion["a2"].producto_ids = <<2, 1>>
    /\ gestion["a2"].respuesta = HTTP200(1)
    /\ ~productos[2].existe
    /\ productos[1].precio_costo = 110000

\* C15: an iteration that finds its product sets the cost to the cost it found
\* times (1 + porcentaje_aumento / 100), rounded to 2 decimals, and counts it,
\* unless that rounded cost is <= 0, in which case it changes and counts
\* nothing; so a cost set by a bulk update is > 0.
C15_CostoNuevoPositivo ==
    [][\A a \in Gestores :
          (PasoItem(a) /\ productos[IdActual(a)].existe /\ productos[IdActual(a)].activo)
            => LET antes == QueryProductoActivo(a, IdActual(a))
                   nuevos == Round2(antes.precio_costo * (100 + gestion[a].porcentaje_aumento), 100)
               IN  IF \A costo \in nuevos : costo <= 0
                   THEN /\ gestion'[a].sesion[IdActual(a)] = antes
                        /\ gestion'[a].productos_actualizados = gestion[a].productos_actualizados
                   ELSE /\ gestion'[a].sesion[IdActual(a)].precio_costo \in nuevos
                        /\ gestion'[a].sesion[IdActual(a)].precio_costo > 0
                        /\ gestion'[a].productos_actualizados
                              = gestion[a].productos_actualizados + 1
      ]_vars
RECURSIVE GCD(_, _)
GCD(m, n) == IF n = 0 THEN m ELSE GCD(n, m % n)

Abs(n) == IF n < 0 THEN -n ELSE n

\* An iteration that applied new prices.
PasoAplica(a) ==
    /\ PasoItem(a)
    /\ gestion'[a].productos_actualizados = gestion[a].productos_actualizados + 1

C17_ErrorRevierteLote ==
    [][\A a \in Gestores :
          /\ PasoItem(a) => productos' = productos
          /\ (gestion[a].pc = "masivo" /\ gestion'[a].pc = "done"
                  /\ gestion'[a].respuesta.status # 200)
                => /\ productos' = productos
                   /\ gestion'[a].respuesta = HTTP500
      ]_vars

\* A bulk update failed on its second id after applying new prices to
\* product 1, whose committed prices are the initial ones.
C17_Witness ==
    /\ gestion["a2"].pc = "done"
    /\ gestion["a2"].respuesta = HTTP500
    /\ gestion["a2"].idx = 2
    /\ gestion["a2"].productos_actualizados = 1
    /\ gestion["a2"].producto_ids[1] = 1
    /\ productos[1].precio_costo = Producto0.precio_costo
    /\ productos[1].precio_venta = Producto0.precio_venta

\* C18 as stated: when a bulk update fails on one product, the prices it
\* applied to the products processed before are committed.
C18_FalloParcialConserva ==
    [][\A a \in Gestores :
          (gestion[a].pc = "masivo" /\ gestion'[a].pc = "done"
              /\ gestion'[a].respuesta.status = 500)
            => \A id \in DOMAIN gestion[a].sesion :
                  /\ productos'[id].precio_costo = gestion[a].sesion[id].precio_costo
                  /\ productos'[id].precio_venta = gestion[a].sesion[id].precio_venta
      ]_vars

\* C18 amended: a bulk update commits the prices it applied all together at
\* its end: an id that is skipped (no row, inactive, non-positive new cost)
\* undoes nothing, every product whose prices the call set gets them at the
\* commit whatever happened to the other ids, and before the commit no
\* product is written.
C18_LoteAtomico ==
    [][\A a \in Gestores :
          /\ (gestion'[a] # gestion[a] /\ gestion'[a].pc = "masivo")
                => productos' = productos
          /\ (PasoItem(a) /\ ~PasoAplica(a))
                => \A id \in DOMAIN gestion[a].sesion :
                      gestion'[a].sesion[id] = gestion[a].sesion[id]
          /\ PasoCommitMasivo(a)
                => \A id \in DOMAIN gestion[a].sesion :
                      LET s == gestion[a].sesion[id]
                      IN  /\ s.precio_costo # s.cargado.precio_costo
                                => productos'[id].precio_costo = s.precio_costo
                          /\ s.precio_venta # s.cargado.precio_venta
                                => productos'[id].precio_venta = s.precio_venta
      ]_vars

\* A bulk update of <<1, 2>> by 10 % skipped product 2, which has no row,
\* and committed the new prices of product 1.
C18_Witness ==
    /\ gestion["a2"].pc = "done"
    /\ gestion["a2"].producto_ids = <<1, 2>>
    /\ gestion["a2"].respuesta = HTTP200(1)
    /\ ~productos[2].existe
    /\ productos[1].precio_costo = 110000
    /\ productos[1].precio_venta = 132000
\* C19: a /users request in which a superadmin names their own id never
\* leaves that account inactive, and when it asks for the deactivation
\* (delete_user, or update_user with activo = false) it is answered with an
\* error.
C19_NoAutoDesactivacion ==
    [][\A a \in Gestores :
          (/\ gestion[a].pc = "idle"
           /\ gestion'[a].op \in {"delete_user", "update_user"}
           /\ gestion'[a].user_id = gestion'[a].current_user)
            => /\ usuarios'[gestion'[a].current_user].activo
               /\ (\/ gestion'[a].op = "delete_user"
                   \/ gestion'[a].user_data = [activo |-> FALSE])
                     => gestion'[a].respuesta.status >= 400
      ]_vars
\* The step in which crear_venta raises the 404.
Paso404(r) ==
    /\ peticion[r].pc = "loop"
    /\ peticion'[r].pc = "done"
    /\ peticion'[r].respuesta.status = 404

\* C20 as stated: when crear_venta raises the 404, the call has inserted no
\* header, added no line item and decremented no stock.
C20_SinMutacionPrevia ==
    [][\A r \in Requests :
          Paso404(r)
            => /\ "db_venta" \notin DOMAIN peticion[r]
               /\ peticion[r].db_items = <<>>
               /\ \A id \in DOMAIN peticion[r].sesion :
                     peticion[r].sesion[id].stock = peticion[r].sesion[id].cargado
      ]_vars

\* C20 amended: when crear_venta raises the 404, at any line, what the call
\* did before (the flushed header, the items added and the stocks decremented
\* for the earlier lines) is held by its transaction only: no committed row
\* carries the id of the sale while the call runs, no step of the call before
\* its commit writes a committed table, and the step that raises the 404
\* empties the session and leaves the committed tables as they were.
C20_MutacionNoConfirmada ==
    /\ [](\A r \in Requests : peticion[r].pc = "loop" =>
            /\ ~VentaPersistida(peticion[r].db_venta.id)
            /\ ItemsDe(peticion[r].db_venta.id) = <<>>)
    /\ [][\A r \in Requests :
            /\ (peticion'[r] # peticion[r] /\ peticion'[r].pc = "loop")
                  => /\ productos' = productos
                     /\ ventas' = ventas
                     /\ items_venta' = items_venta
            /\ Paso404(r)
                  => /\ peticion'[r].sesion = <<>>
                     /\ peticion'[r].db_items = <<>>
                     /\ productos' = productos
                     /\ ventas' = ventas
                     /\ items_venta' = items_venta
                     /\ ~(VentaPersistida(peticion[r].db_venta.id))'
                     /\ ItemsDe(peticion[r].db_venta.id)' = <<>>]_vars

\* A sale of 3 units of product 1 followed by a line for a product with no
\* row got the 404 on that second line; the stock of product 1 is still 5 and
\* the id drawn for the sale is used by no committed row.
C20_Witness ==
    \E r \in Requests :
        /\ Done(r)
        /\ peticion[r].respuesta.status = 404
        /\ peticion[r].idx = 2
        /\ peticion[r].venta[1] = [producto_id |-> 1, cantidad |-> 3, precio_unitario |-> 10]
        /\ peticion[r].db_venta.id <= venta_id_seq
        /\ ~VentaPersistida(peticion[r].db_venta.id)
        /\ productos[1].stock = 5
\* The step in which a sale creation is aborted.
PasoAbortada(r) ==
    /\ peticion[r].pc = "loop"
    /\ peticion'[r].pc = "done"
    /\ peticion'[r].respuesta = HTTP500

\* C21: a sale creation aborted after its header flush, before, between or
\* after its lines, leaves no trace: the step that aborts it writes no
\* committed table, no step it took before did, and no committed header or
\* line item ever carries the id that was drawn for it.
C21_AbortoSinRastro ==
    /\ [](\A r \in Requests : (Done(r) /\ peticion[r].respuesta = HTTP500) =>
            /\ ~VentaPersistida(peticion[r].db_venta.id)
            /\ ItemsDe(peticion[r].db_venta.id) = <<>>)
    /\ [][\A r \in Requests :
            /\ PasoAbortada(r)
                  => /\ productos' = productos
                     /\ ventas' = ventas
                     /\ items_venta' = items_venta
                     /\ peticion'[r].sesion = <<>>
            /\ (peticion[r].pc = "idle" /\ peticion'[r].pc = "loop")
                  => /\ productos' = productos
                     /\ ventas' = ventas
                     /\ items_venta' = items_venta
            /\ (peticion[r].pc = "loop" /\ peticion'[r].pc = "loop"
                    /\ peticion'[r].idx # peticion[r].idx)
                  => /\ productos' = productos
                     /\ ventas' = ventas
                     /\ items_venta' = items_venta]_vars

\* A sale creation of two lines was aborted after its first line, 3 units of
\* product 1, had been processed; the committed stock of product 1 is the
\* initial one and no sale is committed.
C21_Witness ==
    \E r \in Requests :
        /\ Done(r)
        /\ peticion[r].respuesta = HTTP500
        /\ peticion[r].idx = 2
        /\ Len(peticion[r].venta) = 2
        /\ peticion[r].venta[1] = [producto_id |-> 1, cantidad |-> 3, precio_unitario |-> 10]
        /\ productos[1].stock = Producto0.stock
        /\ ventas = {}
\* The step in which sale creation r commits.
PasoCommitVenta(r) ==
    /\ peticion[r].pc = "loop"
    /\ peticion'[r].pc = "done"
    /\ peticion'[r].respuesta.status = 200

\* The request that drew sale id.
PeticionDe(id) ==
    {r \in Requests : peticion[r].pc # "idle" /\ peticion[r].db_venta.id = id}

\* C22: what a sale creation writes becomes visible in one step.  Every
\* step that changes the committed products, sales or line items is the
\* commit of one sale creation, and that step adds the header, all the line
\* items of the request and the stock writes of its session together; a
\* listing that runs meanwhile, header query and item loads in separate
\* reads, returns each sale with as many items as its request had lines and
\* with a total that is the sum of their subtotals.
C22_SinEstadoIntermedio ==
    /\ [][(productos' # productos \/ ventas' # ventas \/ items_venta' # items_venta)
            => \E r \in Requests :
                  /\ PasoCommitVenta(r)
                  /\ ventas' = ventas \cup {peticion[r].db_venta}
                  /\ peticion[r].db_venta \notin ventas
                  /\ items_venta' = items_venta \o peticion[r].db_items
                  /\ Len(peticion[r].db_items) = Len(peticion[r].venta)
                  /\ \A id \in ProductoIds :
                        productos'[id] # productos[id]
                          => /\ id \in DOMAIN peticion[r].sesion
                             /\ productos'[id].stock = peticion[r].sesion[id].stock
                  /\ \A id \in DOMAIN peticion[r].sesion :
                        peticion[r].sesion[id].stock # peticion[r].sesion[id].cargado
                          => productos'[id].stock = peticion[r].sesion[id].stock]_vars
    /\ [](\A a \in Gestores :
            (gestion[a].op = "listar_ventas")
              => \A v \in gestion[a].ventas :
                    /\ PeticionDe(v.id) # {}
                    /\ v.id \in DOMAIN gestion[a].items
                         => /\ \A r \in PeticionDe(v.id) :
                                  Len(gestion[a].items[v.id]) = Len(peticion[r].venta)
                            /\ v.total = SumSeq([k \in 1..Len(gestion[a].items[v.id]) |->
                                                   gestion[a].items[v.id][k].subtotal]))

\* A listing by the admin read its headers between the commits of two sale
\* creations of two lines each: it returned one sale, with its two items,
\* while two are committed.
C22_Witness ==
    /\ gestion["a1"].pc = "done"
    /\ gestion["a1"].op = "listar_ventas"
    /\ gestion["a1"].current_user = 2
    /\ Cardinality(gestion["a1"].ventas) = 1
    /\ \A v \in gestion["a1"].ventas : Len(gestion["a1"].items[v.id]) = 2
    /\ Cardinality(ventas) = 2
    /\ Len(items_venta) = 4
\* The step in which crear_venta raises the 404 or the 400.
PasoError(r) ==
    /\ peticion[r].pc = "loop"
    /\ peticion'[r].pc = "done"
    /\ peticion'[r].respuesta.status \in {400, 404}

\* C23: crear_venta takes the lines in the order sent and stops at the first
\* offending one.  While the loop runs, the items added are the lines before
\* the current one, in order; an error is raised for the current line, which
\* at that moment names a missing product (404) or asks for more than the
\* stock the call sees (400), and names its product; a line is passed only
\* when it offends in neither way; and after the error the call takes no
\* further step, so no later line is looked at.
C23_PrimeraLineaInfractora ==
    /\ [](\A r \in Requests :
            peticion[r].pc = "loop"
              => /\ Len(peticion[r].db_items) = peticion[r].idx - 1
                 /\ peticion[r].idx <= Len(peticion[r].venta) + 1
                 /\ \A k \in 1..Len(peticion[r].db_items) :
                       /\ peticion[r].db_items[k].producto_id = peticion[r].venta[k].producto_id
                       /\ peticion[r].db_items[k].cantidad = peticion[r].venta[k].cantidad)
    /\ [][\A r \in Requests :
            LET p == peticion[r]
            IN  /\ PasoError(r)
                  => /\ p.idx <= Len(p.venta)
                     /\ peticion'[r].idx = p.idx
                     /\ peticion'[r].respuesta.detail = p.venta[p.idx].producto_id
                     /\ LET producto == QueryProducto(r, p.venta[p.idx].producto_id)
                        IN  IF ~producto.existe
                            THEN peticion'[r].respuesta.status = 404
                            ELSE /\ peticion'[r].respuesta.status = 400
                                 /\ producto.stock < p.venta[p.idx].cantidad
                /\ (p.pc = "loop" /\ peticion'[r].pc = "loop" /\ peticion'[r] # p)
                  => /\ peticion'[r].idx = p.idx + 1
                     /\ LET producto == QueryProducto(r, p.venta[p.idx].producto_id)
                        IN  /\ producto.existe
                            /\ producto.stock >= p.venta[p.idx].cantidad
                /\ Done(r) => peticion'[r] = p]_vars

\* A request of two lines failed at its first line, 3 units of product 1 of
\* which fewer are left, with the 400 for product 1; its second line names
\* product 2, which does not exist and would have drawn a 404.
C23_Witness ==
    \E r \in Requests :
        /\ Fallo(r)
        /\ peticion[r].idx = 1
        /\ Len(peticion[r].venta) = 2
        /\ peticion[r].venta[1].producto_id = 1
        /\ peticion[r].venta[2].producto_id = 2
        /\ ~productos[2].existe
        /\ peticion[r].respuesta = HTTP400(1)
\* C24: a request with no lines is served like any other.  It is never
\* answered with an error; its header is flushed with total 0; its commit
\* adds that header, adds no line item and leaves every product as it was;
\* and once it has ended the committed sale has total 0 and no items.
C24_VentaVacia ==
    /\ [](\A r \in Requests :
            (peticion[r].pc # "idle" /\ peticion[r].venta = <<>>)
              => /\ peticion[r].db_venta.total = 0
                 /\ Done(r)
                       => /\ Exito(r)
                          /\ peticion[r].db_venta \in ventas
                          /\ ItemsDe(peticion[r].db_venta.id) = <<>>)
    /\ [][\A r \in Requests :
            (peticion[r].pc = "loop" /\ peticion[r].venta = <<>> /\ peticion'[r] # peticion[r])
              => /\ PasoCommitVenta(r)
                 /\ ventas' = ventas \cup {peticion[r].db_venta}
                 /\ items_venta' = items_venta
                 /\ productos' = productos]_vars

\* A request with no lines has ended with the 200 while the other request
\* sold 3 units of product 1: the empty sale is committed with total 0 and
\* the stock of product 1 is what the other sale left.
C24_Witness ==
    \E r, o \in Requests :
        /\ r # o
        /\ Exito(r)
        /\ peticion[r].venta = <<>>
        /\ [id |-> peticion[r].db_venta.id, usuario_id |-> get_current_user(r), total |-> 0] \in ventas
        /\ Exito(o)
        /\ Len(ItemsDe(peticion[o].db_venta.id)) = 1
        /\ productos[1].stock = 2
\* What a committed line item says apart from the sale it belongs to.
Linea(it) ==
    [producto_id |-> it.producto_id, cantidad |-> it.cantidad,
     precio_unitario |-> it.precio_unitario, subtotal |-> it.subtotal]

\* The line item the request alone determines for one of its lines.
LineaPedida(item) ==
    [producto_id |-> item.producto_id, cantidad |-> item.cantidad,
     precio_unitario |-> item.precio_unitario,
     subtotal |-> item.cantidad * item.precio_unitario]

\* C25: what a sale records comes from the request alone, whatever cost and
\* sale price the products carry at the time.  The committed total and line
\* items of a successful call are those computed from its request; whether a
\* line passes, draws the 404 or draws the 400 follows from the product's
\* existence and stock and the line's quantity; and two successful calls with
\* the same request have recorded the same total and the same lines, although
\* product requests and a bulk update change the stored prices meanwhile.
C25_SoloLaPeticion ==
    /\ [](\A r \in Requests :
            Exito(r)
              => /\ \E v \in ventas :
                       /\ v.id = peticion[r].db_venta.id
                       /\ v.total = SumSeq([k \in 1..Len(peticion[r].venta) |->
                              peticion[r].venta[k].cantidad * peticion[r].venta[k].precio_unitario])
                 /\ Len(ItemsDe(peticion[r].db_venta.id)) = Len(peticion[r].venta)
                 /\ \A k \in 1..Len(peticion[r].venta) :
                       Linea(ItemsDe(peticion[r].db_venta.id)[k]) = LineaPedida(peticion[r].venta[k]))
    /\ [](\A r, o \in Requests :
            (Exito(r) /\ Exito(o) /\ peticion[r].venta = peticion[o].venta)
              => /\ \A v, w \in ventas :
                       (v.id = peticion[r].db_venta.id /\ w.id = peticion[o].db_venta.id)
                         => v.total = w.total
                 /\ [k \in 1..Len(peticion[r].venta) |-> Linea(ItemsDe(peticion[r].db_venta.id)[k])]
                      = [k \in 1..Len(peticion[o].venta) |-> Linea(ItemsDe(peticion[o].db_venta.id)[k])])
    /\ [][\A r \in Requests :
            LET p == peticion[r]
            IN  (p.pc = "loop" /\ p.idx <= Len(p.venta) /\ peticion'[r] # p)
                  => LET item == p.venta[p.idx]
                         visto == IF item.producto_id \in DOMAIN p.sesion
                                  THEN [existe |-> TRUE, stock |-> p.sesion[item.producto_id].stock]
                                  ELSE [existe |-> productos[item.producto_id].existe,
                                        stock |-> IF productos[item.producto_id].existe
                                                  THEN productos[item.producto_id].stock ELSE 0]
                     IN  peticion'[r].respuesta.status =
                            IF ~visto.existe THEN 404
                            ELSE IF visto.stock < item.cantidad THEN 400
                            ELSE 0]_vars

\* Both requests asked for 3 units of product 1 at unit price 10 and both
\* succeeded, while the stored sale price of product 1 is no longer the
\* initial one: each sale has the total 30.
C25_Witness ==
    /\ \A r \in Requests :
          /\ Exito(r)
          /\ peticion[r].venta = <<[producto_id |-> 1, cantidad |-> 3, precio_unitario |-> 10]>>
    /\ \A v \in ventas : v.total = 30
    /\ Cardinality(ventas) = 2
    /\ productos[1].existe
    /\ productos[1].precio_venta # Producto0.precio_venta
\* The step in which worker a reads the sale headers for a listing.
PasoListado(a) ==
    /\ gestion[a].pc = "idle"
    /\ gestion'[a].pc = "serializando"
    /\ gestion'[a].op = "listar_ventas"

\* C26: a listing asked by an account with an administrative rol
\* (SUPERADMIN or ADMIN) reads every committed sale, and a listing asked by
\* any other account reads exactly the committed sales that account owns.
C26_ListadoPorRol ==
    [][\A a \in Gestores :
          PasoListado(a)
            => LET current_user == gestion'[a].current_user
               IN  gestion'[a].ventas =
                      IF usuarios[current_user].rol \in {"SUPERADMIN", "ADMIN"}
                      THEN ventas
                      ELSE {v \in ventas : v.usuario_id = current_user}
      ]_vars
\* C27: reading a committed sale is idempotent and writes nothing.  A step
\* of a listing leaves every committed table and the id sequence as they
\* were; what a listing returned for a sale is what the store still holds for
\* it, whatever sale creations ran since; and two listings that both returned
\* a sale returned the same total and the same line items for it.
C27_LecturaIdempotente ==
    /\ [][\A a \in Gestores :
            (gestion'[a] # gestion[a] /\ gestion'[a].op = "listar_ventas")
              => /\ productos' = productos
                 /\ ventas' = ventas
                 /\ items_venta' = items_venta
                 /\ venta_id_seq' = venta_id_seq
                 /\ usuarios' = usuarios]_vars
    /\ [](\A a \in Gestores :
            gestion[a].op = "listar_ventas"
              => \A v \in gestion[a].ventas :
                    /\ v \in ventas
                    /\ v.id \in DOMAIN gestion[a].items
                          => gestion[a].items[v.id] = ItemsDe(v.id))
    /\ [](\A a, b \in Gestores :
            (gestion[a].op = "listar_ventas" /\ gestion[b].op = "listar_ventas")
              => \A v \in gestion[a].ventas, w \in gestion[b].ventas :
                    v.id = w.id
                      => /\ v.total = w.total
                         /\ (v.id \in DOMAIN gestion[a].items /\ v.id \in DOMAIN gestion[b].items)
                               => gestion[a].items[v.id] = gestion[b].items[v.id])

\* Two listings by the admin have ended; the first returned one sale, of one
\* line, the second returned that sale and another of one line committed in
\* between.
C27_Witness ==
    /\ \A a \in Gestores :
          /\ gestion[a].pc = "done"
          /\ gestion[a].op = "listar_ventas"
          /\ gestion[a].current_user = 2
    /\ Cardinality(gestion["a1"].ventas) = 1
    /\ Cardinality(gestion["a2"].ventas) = 2
    /\ gestion["a1"].ventas \subseteq gestion["a2"].ventas
    /\ \A v \in gestion["a2"].ventas : Len(gestion["a2"].items[v.id]) = 1
\* Units of product id asked for by the first n lines of a request.
UnidadesHasta(venta, id, n) ==
    SumSeq([k \in 1..n |-> IF venta[k].producto_id = id THEN venta[k].cantidad ELSE 0])

\* C28: lines of one request that name the same product are checked against
\* a stock that earlier lines of the request have already reduced.  While
\* the loop runs, the stock the call sees for a product is the stock it
\* loaded minus the units of the lines processed so far; a line draws the 400
\* exactly when its quantity exceeds that stock, and then nothing is written;
\* and a call commits only when, for every product it names, the units of all
\* its lines together do not exceed the stock it loaded.
C28_LineasRepetidas ==
    /\ [](\A r \in Requests :
            peticion[r].pc = "loop"
              => \A id \in DOMAIN peticion[r].sesion :
                    peticion[r].sesion[id].stock =
                        peticion[r].sesion[id].cargado
                          - UnidadesHasta(peticion[r].venta, id, peticion[r].idx - 1))
    /\ [][\A r \in Requests :
            LET p == peticion[r]
            IN  /\ (p.pc = "loop" /\ p.idx <= Len(p.venta) /\ peticion'[r] # p
                        /\ p.venta[p.idx].producto_id \in DOMAIN p.sesion)
                  => LET id == p.venta[p.idx].producto_id
                         visto == p.sesion[id].cargado - UnidadesHasta(p.venta, id, p.idx - 1)
                     IN  IF visto < p.venta[p.idx].cantidad
                         THEN /\ peticion'[r].respuesta = HTTP400(id)
                              /\ productos' = productos
                              /\ ventas' = ventas
                              /\ items_venta' = items_venta
                         ELSE peticion'[r].pc = "loop"
                /\ PasoCommitVenta(r)
                  => \A id \in DOMAIN p.sesion :
                        Unidades(p.venta, id) <= p.sesion[id].cargado]_vars

\* A request of two lines of 3 units of product 1 each, which had 5 in
\* stock, failed at its second line with the 400 for product 1; nothing of
\* it is committed and the stock is still 5.
C28_Witness ==
    \E r \in Requests :
        /\ Fallo(r)
        /\ peticion[r].idx = 2
        /\ \A k \in 1..2 :
              peticion[r].venta[k] = [producto_id |-> 1, cantidad |-> 3, precio_unitario |-> 10]
        /\ Len(peticion[r].venta) = 2
        /\ peticion[r].respuesta = HTTP400(1)
        /\ productos[1].stock = 5
        /\ ventas = {}
\* C29: a bulk update applies its percentage at most once to each product,
\* however often the id is listed.  At the commit, the cost the call holds
\* for a product is the cost it loaded or that cost raised once by the
\* percentage, and the count answered is no more than the number of distinct
\* ids listed.
C29_UnaVezPorProducto ==
    [][\A a \in Gestores :
          PasoCommitMasivo(a)
            => LET g == gestion[a]
               IN  /\ \A id \in DOMAIN g.sesion :
                         \/ g.sesion[id].precio_costo = g.sesion[id].cargado.precio_costo
                         \/ g.sesion[id].precio_costo \in
                               Round2(g.sesion[id].cargado.precio_costo * (100 + g.porcentaje_aumento), 100)
                   /\ gestion'[a].respuesta.detail
                         <= Cardinality({g.producto_ids[k] : k \in 1..Len(g.producto_ids)})
      ]_vars
\* C30: every sale creation that has started ends, with a committed sale or
\* with the 404 or the 400, also when its stock UPDATEs have to wait for row
\* locks held by a concurrent sale creation.
C30_TerminaSiempre ==
    /\ \A r \in Requests : (peticion[r].pc = "loop") ~> Done(r)
    /\ [](\A r \in Requests :
            Done(r) => \/ Exito(r) /\ VentaPersistida(peticion[r].db_venta.id)
                       \/ Fallo(r))

\* Two requests name products 1 and 2, 3 units each, in opposite line order;
\* both have processed their lines, the first holds the row lock of product 1
\* and the second waits for it.
C30_Witness ==
    /\ peticion["r1"].pc = "loop"
    /\ peticion["r2"].pc = "loop"
    /\ peticion["r1"].venta = <<[producto_id |-> 1, cantidad |-> 3, precio_unitario |-> 10],
                                [producto_id |-> 2, cantidad |-> 3, precio_unitario |-> 10]>>
    /\ peticion["r2"].venta = <<[producto_id |-> 2, cantidad |-> 3, precio_unitario |-> 10],
                                [producto_id |-> 1, cantidad |-> 3, precio_unitario |-> 10]>>
    /\ peticion["r1"].bloqueados = {1}
    /\ peticion["r2"].idx = 3
    /\ peticion["r2"].bloqueados = {}
    /\ FilaBloqueada("r2", 1)
====
